---- MODULE Spec2Model ----
(***************************************************************************)
(* A model of the GLL parser of sskeirik/parser-playground:                *)
(*   src/pygll/pygll/grammar.py  grammar model, closures, FIRST/FOLLOW,    *)
(*                               GrammarPredictor                          *)
(*   src/pygll/pygll/parser.py   grammar slots, descriptors, BSR nodes,    *)
(*                               GLLParser                                 *)
(* Python sets iterate in an order fixed by the process's hash seed; a     *)
(* grammar value here lists every rule set in the order this process       *)
(* iterates it, and Init draws that order.  workingSet.pop() takes any     *)
(* member.  An uncaught Python exception is the outcome pc = "raised".     *)
(***************************************************************************)
EXTENDS Integers, Sequences, FiniteSets, TLC

(* ------------------------------ bounds -------------------------------- *)

\* every token list up to this length is handed to parse
MaxLen == 3

\* largest positive step budget handed to parse / continueParse
MaxBudget == 2

(* ------------------- grammar.py: grammar representation ---------------- *)

Term(n) == [kind |-> "Term", name |-> n]

NonTerm(n) == [kind |-> "NonTerm", name |-> n]

Epsilon == [kind |-> "Epsilon"]

Rule(lhs, rhs) == [lhs |-> lhs, rhs |-> rhs]

isTerm(s) == s.kind = "Term"

isNonTerm(s) == s.kind = "NonTerm"

\* Grammar(start, ruleDict): ruleDict is a sequence of entries
\* [nt |-> n, rules |-> <<rhs, ...>>] in dict insertion order, each rule
\* set in its iteration order.
Grammar(start, ruleDict) == [start |-> start, ruleDict |-> ruleDict]

\* Grammar.__getitem__: ruleDict.get(nonterm, set())
GrammarGet(g, nonterm) ==
  LET hit == {i \in 1..Len(g.ruleDict) : g.ruleDict[i].nt = nonterm}
  IN IF hit = {} THEN <<>> ELSE g.ruleDict[CHOOSE i \in hit : TRUE].rules

\* Grammar.keys()
GrammarKeys(g) == {g.ruleDict[i].nt : i \in 1..Len(g.ruleDict)}

\* a defaultdict(set) is a function on the keys it holds; reading a key it
\* does not hold yields the empty set and inserts the key
DictGet(d, k) == IF k \in DOMAIN d THEN d[k] ELSE {}

DictTouch(d, ks) == [k \in DOMAIN d \cup ks |-> DictGet(d, k)]

DictSet(d, k, v) == [x \in DOMAIN d \cup {k} |-> IF x = k THEN v ELSE d[x]]

EmptyDict == [k \in {} |-> {}]

DictLen(d) == Cardinality(DOMAIN d)

SeqSet(s) == {s[i] : i \in 1..Len(s)}

(* ----------------------- grammar.py: closure -------------------------- *)

\* f(s, g) for the step function that closure was given, by its name
RECURSIVE closure_call(_, _, _)

\* Python's len(s): the number of members of a set, of keys of a dict
closure_len(f, s) ==
  IF f \in {"_buildFirst1", "_buildFollow1"} THEN DictLen(s) ELSE Cardinality(s)

\* closure_f's while loop: size, newsize are the two watermarks
RECURSIVE closure_loop(_, _, _, _, _, _)
closure_loop(f, inc, s, g, size, newsize) ==
  IF (IF inc THEN size < newsize ELSE newsize > size)
  THEN LET s2 == closure_call(f, s, g)
       IN closure_loop(f, inc, s2, g, newsize, closure_len(f, s2))
  ELSE s

\* closure(f, inc)(s, g)
closure(f, inc, s, g) ==
  IF inc THEN closure_loop(f, inc, s, g, -1, closure_len(f, s))
         ELSE closure_loop(f, inc, s, g, closure_len(f, s), closure_len(f, s) + 1)

(* ------------------ grammar.py: grammar preprocessing ----------------- *)

shrink_rules(rules, p) ==
  SelectSeq(rules, LAMBDA rule :
    ~ \E i \in 1..Len(rule) : isNonTerm(rule[i]) /\ rule[i] \notin p)

shrink(g, p) ==
  LET kept == SelectSeq(g.ruleDict, LAMBDA e : e.nt \in p)
  IN Grammar(g.start,
       [i \in 1..Len(kept) |->
          [nt |-> kept[i].nt, rules |-> shrink_rules(kept[i].rules, p)]])

productive_rule(rule, p) ==
  \A i \in 1..Len(rule) : isTerm(rule[i]) \/ rule[i] \in p

RECURSIVE productive_from(_, _, _)
productive_from(p, g, i) ==
  IF i > Len(g.ruleDict) THEN p
  ELSE LET e == g.ruleDict[i]
       IN IF e.nt \in p THEN productive_from(p, g, i + 1)
          ELSE IF \E j \in 1..Len(e.rules) : productive_rule(e.rules[j], p)
               THEN productive_from(p \cup {e.nt}, g, i + 1)
               ELSE productive_from(p, g, i + 1)

_productive_1(p, g) == productive_from(p, g, 1)

\* productive as one pass over the rules instead of the closure of passes
productive_OnePass(g) == _productive_1({}, g)

productive(g) == closure("_productive_1", TRUE, {}, g)

RECURSIVE reachable_from(_, _, _)
reachable_from(r, g, i) ==
  IF i > Len(g.ruleDict) THEN r
  ELSE LET e == g.ruleDict[i]
       IN IF e.nt \notin r THEN reachable_from(r, g, i + 1)
          ELSE reachable_from(
                 r \cup {s \in UNION {SeqSet(e.rules[j]) : j \in 1..Len(e.rules)} :
                           isNonTerm(s)}, g, i + 1)

_reachable_1(r, g) == reachable_from(r, g, 1)

reachable(g) == closure("_reachable_1", TRUE, {g.start}, g)

(* -------------------- grammar.py: grammar prediction ------------------ *)

RECURSIVE nullable_from(_, _, _)
nullable_from(null, g, i) ==
  IF i > Len(g.ruleDict) THEN null
  ELSE LET e == g.ruleDict[i]
       IN IF e.nt \in null THEN nullable_from(null, g, i + 1)
          ELSE IF \E j \in 1..Len(e.rules) :
                    \A k \in 1..Len(e.rules[j]) :
                       isNonTerm(e.rules[j][k]) /\ e.rules[j][k] \in null
               THEN nullable_from(null \cup {e.nt}, g, i + 1)
               ELSE nullable_from(null, g, i + 1)

_nullable_1(null, g) == nullable_from(null, g, 1)

nullable(g) == closure("_nullable_1", TRUE, {}, g)

\* first(firstMap, word) from symbol i on: the set built, and the keys the
\* walk read from firstMap (a defaultdict inserts each key it is asked for)
RECURSIVE first_walk(_, _, _)
first_walk(firstMap, word, i) ==
  IF i > Len(word) THEN [set |-> {Epsilon}, keys |-> {}]
  ELSE IF isTerm(word[i]) THEN [set |-> {word[i]}, keys |-> {}]
  ELSE LET firstSym == DictGet(firstMap, word[i])
       IN IF Epsilon \in firstSym
          THEN LET rest == first_walk(firstMap, word, i + 1)
               IN [set  |-> (firstSym \ {Epsilon}) \cup rest.set,
                   keys |-> {word[i]} \cup rest.keys]
          ELSE [set |-> firstSym, keys |-> {word[i]}]

first(firstMap, word) == first_walk(firstMap, word, 1).set

\* the rules of ruleDict entry i from rule j on: firstMap[n] = first(firstMap, rule)
RECURSIVE buildFirst1_rules(_, _, _, _)
buildFirst1_rules(firstMap, g, i, j) ==
  IF i > Len(g.ruleDict) THEN firstMap
  ELSE IF j > Len(g.ruleDict[i].rules) THEN buildFirst1_rules(firstMap, g, i + 1, 1)
  ELSE LET w == first_walk(firstMap, g.ruleDict[i].rules[j], 1)
       IN buildFirst1_rules(
            DictSet(DictTouch(firstMap, w.keys), g.ruleDict[i].nt, w.set), g, i, j + 1)

_buildFirst1(firstMap, g) == buildFirst1_rules(firstMap, g, 1, 1)

buildFirst(g) == closure("_buildFirst1", TRUE, EmptyDict, g)

\* one rule of _buildFollow1: the adjacent pairs from position i on, then
\* the last symbol
RECURSIVE buildFollow1_rule(_, _, _, _, _)
buildFollow1_rule(follow, firstMap, n, rule, i) ==
  IF i < Len(rule)
  THEN LET curr == rule[i]
           nxt  == rule[i + 1]
       IN IF isTerm(curr) THEN buildFollow1_rule(follow, firstMap, n, rule, i + 1)
          ELSE buildFollow1_rule(
                 DictSet(follow, curr,
                   DictGet(follow, curr) \cup
                     (IF isTerm(nxt) THEN {nxt}
                      ELSE DictGet(firstMap, nxt) \ {Epsilon})),
                 firstMap, n, rule, i + 1)
  ELSE LET last == rule[Len(rule)]
       IN IF isNonTerm(last)
          THEN LET f2 == DictTouch(follow, {last, n})
               IN DictSet(f2, last, f2[last] \cup f2[n])
          ELSE follow

RECURSIVE buildFollow1_rules(_, _, _, _, _)
buildFollow1_rules(follow, g, firstMap, i, j) ==
  IF i > Len(g.ruleDict) THEN follow
  ELSE IF j > Len(g.ruleDict[i].rules) THEN buildFollow1_rules(follow, g, firstMap, i + 1, 1)
  ELSE LET rule == g.ruleDict[i].rules[j]
       IN IF Len(rule) = 0 THEN buildFollow1_rules(follow, g, firstMap, i, j + 1)
          ELSE buildFollow1_rules(
                 buildFollow1_rule(follow, firstMap, g.ruleDict[i].nt, rule, 1),
                 g, firstMap, i, j + 1)

\* gfp is the pair <<g, firstMap>>
_buildFollow1(follow, gfp) == buildFollow1_rules(follow, gfp[1], gfp[2], 1, 1)

buildFollow(g, firstMap, end) ==
  closure("_buildFollow1", TRUE, DictSet(EmptyDict, g.start, {end}), <<g, firstMap>>)

\* a step function a caller hands to closure(f, False): it keeps the
\* nonterminals of s that have a rhs whose nonterminals are all in s, and so
\* only removes
supported_1(s, g) ==
  {n \in s : \E rhs \in SeqSet(GrammarGet(g, n)) :
              \A sym \in SeqSet(rhs) : isNonTerm(sym) => sym \in s}

closure_call(f, s, g) ==
  CASE f = "supported_1"   -> supported_1(s, g)
    [] f = "_productive_1" -> _productive_1(s, g)
    [] f = "_reachable_1"  -> _reachable_1(s, g)
    [] f = "_nullable_1"   -> _nullable_1(s, g)
    [] f = "_buildFirst1"  -> _buildFirst1(s, g)
    [] f = "_buildFollow1" -> _buildFollow1(s, g)

(* --------------- grammar.py: grammar initialization ------------------- *)

\* preprocess with the two prunings in the other order, its result returned
preprocess_ReachableFirst(g) ==
  LET r  == reachable(g)
      g1 == shrink(g, r)
      p  == productive(g1)
      g2 == shrink(g1, p)
  IN g2

preprocess(g) ==
  LET p  == productive(g)
      g1 == shrink(g, p)
      r  == reachable(g1)
      g2 == shrink(g1, r)
  IN g

\* GrammarPredictor.__init__
GrammarPredictor(g, end) ==
  LET pg == preprocess(g)
      fm == buildFirst(pg)
  IN [grammar |-> pg, firstMap |-> fm, followMap |-> buildFollow(pg, fm, end), end |-> end]

\* testSelect that compares nothing and selects every rhs
testSelect_NoCompare(pred, term, nonterm, word) == [raised |-> "", value |-> TRUE]

\* GrammarPredictor.testSelect: the name followMap in its body is no
\* attribute of self and no global of grammar.py, so evaluating it raises
\* NameError; Python's `or` and `and` evaluate it only when term is not in
\* wordFirst and Epsilon is.
testSelect(pred, term, nonterm, word) ==
  LET wordFirst == first(pred.firstMap, word)
  IN IF term \in wordFirst THEN [raised |-> "", value |-> TRUE]
     ELSE IF Epsilon \in wordFirst THEN [raised |-> "NameError", value |-> FALSE]
     ELSE [raised |-> "", value |-> FALSE]

(* ------------------- parser.py: GLL data structures ------------------- *)

GrammarSlot(rule, index) == [rule |-> rule, index |-> index]

\* GrammarSlot.__post_init__ without the test against the length of the rhs
GrammarSlotCheck_NoUpper(rule, index) ==
  IF index < 0 THEN "ValueError" ELSE ""

\* GrammarSlot.__post_init__: "" when the slot is accepted
GrammarSlotCheck(rule, index) ==
  IF index < 0 \/ index > Len(rule.rhs) THEN "ValueError" ELSE ""

\* GrammarSlot.pred: the symbol before the cursor, or the error raised
pred(slot) ==
  IF slot.index = 0 THEN [raised |-> "ValueError", value |-> Epsilon]
  ELSE IF ~ isNonTerm(slot.rule.rhs[slot.index]) THEN [raised |-> "ValueError", value |-> Epsilon]
  ELSE [raised |-> "", value |-> slot.rule.rhs[slot.index]]

prefix(slot) == SubSeq(slot.rule.rhs, 1, slot.index)

suffix(slot) == SubSeq(slot.rule.rhs, slot.index + 1, Len(slot.rule.rhs))

\* Python's None, where a slot is expected
None == [none |-> TRUE]

\* update that leaves the cursor where it is
update_Same(slot, offset) == slot

\* GrammarSlot.update(offset): None for a cursor past the end of the rhs
update(slot, offset) ==
  IF offset = 0 THEN slot
  ELSE IF slot.index + offset <= Len(slot.rule.rhs)
  THEN GrammarSlot(slot.rule, slot.index + offset)
  ELSE None

\* Descriptor with its two positions in the other order
Descriptor_Swapped(slot, callIndex, index) ==
  [slot |-> slot, callIndex |-> index, index |-> callIndex]

Descriptor(slot, callIndex, index) ==
  [slot |-> slot, callIndex |-> callIndex, index |-> index]

CallRecord(symbol, index) == [symbol |-> symbol, index |-> index]

CallReturnAddress(slot, callIndex) == [slot |-> slot, callIndex |-> callIndex]

BSRAltNode(label, lext, pivot, rext) ==
  [type |-> "Alt", label |-> label, lext |-> lext, pivot |-> pivot, rext |-> rext]

\* the label of a tree node is a tuple of symbols, held in a one-field
\* record so that it compares with a Rule
BSRTreeNode(label, lext, pivot, rext) ==
  [type |-> "Tree", label |-> [symbols |-> label], lext |-> lext, pivot |-> pivot,
   rext |-> rext]

\* the symbols of a node's label: a Rule's rhs, or the prefix itself
LabelSyms(node) == IF node.type = "Alt" THEN node.label.rhs ELSE node.label.symbols

\* validateBSRNode: "" when the node is accepted, else the exception;
\* label[-1] of an empty label is an IndexError
validateBSRNode(isTreeNode, node) ==
  LET label == LabelSyms(node)
  IN IF ~ (node.lext <= node.pivot /\ node.pivot <= node.rext) THEN "ValueError"
     ELSE IF Len(label) = 0 THEN "IndexError"
     ELSE IF isTerm(label[Len(label)]) /\ ~ (node.pivot + 1 = node.rext) THEN "ValueError"
     ELSE IF isTreeNode /\ Len(label) < 2 THEN "ValueError"
     ELSE IF Len(label) = 1 /\ ~ (node.lext = node.pivot) THEN "ValueError"
     ELSE ""

(* ------------------------ parser.py: GLLParser ------------------------ *)

\* An engine value `self` is a record of the GLLParser attributes plus
\* `raised`: the exception that has propagated out of the running call
\* ("" when none), and `scanned`: the pairs <<terminal, position>> that
\* continueParse has stepped over (a log, no attribute).
\* callReturnForest and contingentReturnSet are
\* defaultdict(set).

Raise(self, err) == [self EXCEPT !.raised = err]

\* addDesc without the totalSet test
addDesc_Unguarded(self, desc) ==
  [self EXCEPT !.workingSet = @ \cup {desc}, !.totalSet = @ \cup {desc}]

addDesc(self, desc) ==
  IF desc \notin self.totalSet
  THEN [self EXCEPT !.workingSet = @ \cup {desc}, !.totalSet = @ \cup {desc}]
  ELSE self

\* ntAdd that enqueues every alternative, its predictive test not consulted
RECURSIVE ntAdd_from_NoSelect(_, _, _, _, _)
ntAdd_from_NoSelect(self, nonterm, index, rules, j) ==
  IF j > Len(rules) THEN self
  ELSE IF index >= Len(self.parseInput) THEN Raise(self, "IndexError")
  ELSE ntAdd_from_NoSelect(
         addDesc(self, Descriptor(GrammarSlot(Rule(nonterm, rules[j]), 0), index, index)),
         nonterm, index, rules, j + 1)

\* ntAdd from the j-th rhs of grammar[nonterm] on; parseInput[index] is a
\* plain list lookup
RECURSIVE ntAdd_from(_, _, _, _, _)
ntAdd_from(self, nonterm, index, rules, j) ==
  IF j > Len(rules) THEN self
  ELSE IF index >= Len(self.parseInput) THEN Raise(self, "IndexError")
  ELSE LET ts == testSelect(self.grammar, self.parseInput[index + 1], nonterm, rules[j])
       IN IF ts.raised # "" THEN Raise(self, ts.raised)
          ELSE IF ts.value
               THEN ntAdd_from(
                      addDesc(self, Descriptor(GrammarSlot(Rule(nonterm, rules[j]), 0), index, index)),
                      nonterm, index, rules, j + 1)
               ELSE ntAdd_from(self, nonterm, index, rules, j + 1)

ntAdd(self, nonterm, index) ==
  ntAdd_from(self, nonterm, index, GrammarGet(self.grammar.grammar, nonterm), 1)

\* bsrAdd with its two tests in the other order: a prefix of two or more
\* symbols is packed even when it is the whole rhs
bsrAdd_PrefixFirst(self, slot, lext, pivot, rext) ==
  IF Len(prefix(slot)) > 1
  THEN LET node == BSRTreeNode(prefix(slot), lext, pivot, rext)
           err  == validateBSRNode(TRUE, node)
       IN IF err # "" THEN Raise(self, err)
          ELSE [self EXCEPT !.bsrSet = @ \cup {node}]
  ELSE IF Len(suffix(slot)) = 0
  THEN LET node == BSRAltNode(slot.rule, lext, pivot, rext)
           err  == validateBSRNode(FALSE, node)
       IN IF err # "" THEN Raise(self, err)
          ELSE [self EXCEPT !.bsrSet = @ \cup {node}]
  ELSE self

\* slot.suffix() of None is an AttributeError
bsrAdd(self, slot, lext, pivot, rext) ==
  IF slot = None THEN Raise(self, "AttributeError")
  ELSE IF Len(suffix(slot)) = 0
  THEN LET node == BSRAltNode(slot.rule, lext, pivot, rext)
           err  == validateBSRNode(FALSE, node)
       IN IF err # "" THEN Raise(self, err)
          ELSE [self EXCEPT !.bsrSet = @ \cup {node}]
  ELSE IF Len(prefix(slot)) > 1
  THEN LET node == BSRTreeNode(prefix(slot), lext, pivot, rext)
           err  == validateBSRNode(TRUE, node)
       IN IF err # "" THEN Raise(self, err)
          ELSE [self EXCEPT !.bsrSet = @ \cup {node}]
  ELSE self

\* the loop of call over the return positions still in `todo`; the order
\* of the loop shows only if bsrAdd raises in it
RECURSIVE call_replay(_, _, _, _, _)
call_replay(self, slot, callIndex, index, todo) ==
  IF todo = {} \/ self.raised # "" THEN self
  ELSE LET retIndex == CHOOSE r \in todo : \A q \in todo : r <= q
       IN call_replay(
            bsrAdd(addDesc(self, Descriptor(slot, callIndex, retIndex)),
                   slot, callIndex, index, retIndex),
            slot, callIndex, index, todo \ {retIndex})

\* slot.pred() of None is an AttributeError
call(self, slot, callIndex, index) ==
  LET sym == IF slot = None THEN [raised |-> "AttributeError", value |-> Epsilon]
             ELSE pred(slot)
  IN IF sym.raised # "" THEN Raise(self, sym.raised)
     ELSE LET record     == CallRecord(sym.value, index)
              retAddr    == CallReturnAddress(slot, callIndex)
              s1         == [self EXCEPT !.callReturnForest = DictTouch(@, {record})]
              retAddrSet == s1.callReturnForest[record]
          IN IF Cardinality(retAddrSet) = 0
             THEN ntAdd([s1 EXCEPT !.callReturnForest[record] = @ \cup {retAddr}],
                        sym.value, index)
             ELSE IF retAddr \notin retAddrSet
             THEN LET s2 == [s1 EXCEPT !.callReturnForest[record] = @ \cup {retAddr},
                                        !.contingentReturnSet = DictTouch(@, {record})]
                  IN call_replay(s2, slot, callIndex, index, s2.contingentReturnSet[record])
             ELSE s1

\* the loop of rtn over the return addresses still in `todo`
RECURSIVE rtn_resume(_, _, _, _)
rtn_resume(self, callIndex, retIndex, todo) ==
  IF todo = {} \/ self.raised # "" THEN self
  ELSE LET retAddr == CHOOSE a \in todo : TRUE
       IN rtn_resume(
            bsrAdd(addDesc(self, Descriptor(retAddr.slot, retAddr.callIndex, retIndex)),
                   retAddr.slot, retAddr.callIndex, callIndex, retIndex),
            callIndex, retIndex, todo \ {retAddr})

\* rtn that records the return position and resumes no caller
rtn_NoResume(self, sym, callIndex, retIndex) ==
  LET record == CallRecord(sym, callIndex)
      s1     == [self EXCEPT !.contingentReturnSet = DictTouch(@, {record})]
  IN IF retIndex \notin s1.contingentReturnSet[record]
     THEN [s1 EXCEPT !.contingentReturnSet[record] = @ \cup {retIndex},
                     !.callReturnForest = DictTouch(@, {record})]
     ELSE s1

rtn(self, sym, callIndex, retIndex) ==
  LET record == CallRecord(sym, callIndex)
      s1     == [self EXCEPT !.contingentReturnSet = DictTouch(@, {record})]
  IN IF retIndex \notin s1.contingentReturnSet[record]
     THEN LET s2 == [s1 EXCEPT !.contingentReturnSet[record] = @ \cup {retIndex},
                                !.callReturnForest = DictTouch(@, {record})]
          IN rtn_resume(s2, callIndex, retIndex, s2.callReturnForest[record])
     ELSE s1

\* getInput giving the end marker at every index from len(parseInput) on
getInput_AnyEnd(self, index) ==
  IF index >= Len(self.parseInput) THEN [raised |-> "", value |-> self.grammar.end]
  ELSE IF index >= 0
  THEN [raised |-> "", value |-> self.parseInput[index + 1]]
  ELSE [raised |-> "ValueError", value |-> Epsilon]

getInput(self, index) ==
  IF index = Len(self.parseInput) THEN [raised |-> "", value |-> self.grammar.end]
  ELSE IF index >= 0 /\ index < Len(self.parseInput)
  THEN [raised |-> "", value |-> self.parseInput[index + 1]]
  ELSE [raised |-> "ValueError", value |-> Epsilon]

\* the file the GLLParser class was imported from: "pygll/parser.py" or
\* "pygll/pygll/parser.py"
VARIABLE engineFile

\* the prune guard of continueParse in src/pygll/parser.py
needSelect_IndexOnly(slot, offset) == slot.index # 0

\* the prune guard of continueParse: src/pygll/parser.py and
\* src/pygll/pygll/parser.py differ in this line and in names only
needSelect(slot, offset) ==
  IF engineFile = "pygll/parser.py" THEN slot.index # 0 ELSE slot.index + offset # 0

\* the inner while loop of continueParse from `offset` on, with its else
\* clause (reached when the loop condition fails, never after a break)
RECURSIVE scan(_, _, _, _, _)
scan(self, slot, callIndex, index, offset) ==
  LET sym   == slot.rule.lhs
      sfx   == suffix(slot)
      focus == getInput(self, index + offset)
  IN IF ~ (Len(sfx) - offset > 0)
     THEN IF focus.raised # "" THEN Raise(self, focus.raised)
          ELSE IF focus.value \in DictGet(self.grammar.followMap, sym)
          THEN rtn(self, sym, callIndex, index + offset)
          ELSE self
     ELSE LET subject == sfx[offset + 1]
              ts == IF needSelect(slot, offset)
                    THEN testSelect(self.grammar, focus.value, sym,
                                    SubSeq(sfx, offset + 1, Len(sfx)))
                    ELSE [raised |-> "", value |-> TRUE]
          IN IF focus.raised # "" THEN Raise(self, focus.raised)
             ELSE IF ts.raised # "" THEN Raise(self, ts.raised)
             ELSE IF ~ ts.value THEN self
             ELSE IF isNonTerm(subject)
             THEN call(self, update(slot, offset + 1), callIndex, index + offset)
             ELSE LET s1 == IF isTerm(subject)
                            THEN bsrAdd([self EXCEPT !.scanned =
                                           @ \cup {<<subject, index + offset>>}],
                                        update(slot, offset + 1), callIndex,
                                        index + offset, index + offset + 1)
                            ELSE self
                  IN IF s1.raised # "" THEN s1
                     ELSE scan(s1, slot, callIndex, index, offset + 1)

\* the body of continueParse's outer loop once desc = workingSet.pop()
process(self, desc) ==
  LET s1 == [self EXCEPT !.workingSet = @ \ {desc}]
  IN IF Len(desc.slot.rule.rhs) = 0 THEN s1
     ELSE scan(s1, desc.slot, desc.callIndex, desc.index, 0)

\* the loop condition without the test of steps
loopCond_NoBudget(self, steps) == Cardinality(self.workingSet) > 0

\* the condition of continueParse's outer loop
loopCond(self, steps) == Cardinality(self.workingSet) > 0 /\ steps # 0

\* one iteration of continueParse's outer loop, workingSet.pop() giving desc
continueParse_iter(self, steps, desc) ==
  [self |-> process(self, desc), steps |-> IF steps > 0 THEN steps - 1 ELSE steps]

\* parse without the assignment of bsrSet
parse_seed_KeepBSR(self, tokens) ==
  ntAdd([self EXCEPT !.parseInput = tokens \o <<self.grammar.end>>,
                     !.workingSet = {},
                     !.totalSet = {},
                     !.callReturnForest = EmptyDict,
                     !.contingentReturnSet = EmptyDict,
                     !.raised = ""],
        self.grammar.grammar.start, 0)

\* parse up to its call of continueParse: every attribute is assigned anew
parse_seed(self, tokens) ==
  ntAdd([self EXCEPT !.parseInput = tokens \o <<self.grammar.end>>,
                     !.workingSet = {},
                     !.totalSet = {},
                     !.bsrSet = {},
                     !.callReturnForest = EmptyDict,
                     !.contingentReturnSet = EmptyDict,
                     !.raised = ""],
        self.grammar.grammar.start, 0)

\* GLLParser.__init__: only the predictor is stored
GLLParser(predictor) ==
  [grammar |-> predictor, parseInput |-> <<>>, workingSet |-> {}, totalSet |-> {},
   bsrSet |-> {}, callReturnForest |-> EmptyDict, contingentReturnSet |-> EmptyDict,
   raised |-> "", scanned |-> {}]

(* --------------------------- the grammars ----------------------------- *)

\* every order in which a set can be iterated
Orders(S) ==
  {f \in [1..Cardinality(S) -> S] : \A i, j \in 1..Cardinality(S) : f[i] = f[j] => i = j}

\* every ruleDict with the keys of `entries` (in that order) from entry i
\* on, each rule set in one of its iteration orders
RECURSIVE RuleDicts(_, _)
RuleDicts(entries, i) ==
  IF i > Len(entries) THEN {<<>>}
  ELSE {<<[nt |-> entries[i].nt, rules |-> o]>> \o rest :
          o \in Orders(entries[i].rules), rest \in RuleDicts(entries, i + 1)}

Grammars(start, entries) == {Grammar(start, rd) : rd \in RuleDicts(entries, 1)}

\* tests/test_parser.py G4:  E := E "+" E | "1"
G4 ==
  Grammars(NonTerm("E"),
    <<[nt |-> NonTerm("E"),
       rules |-> {<<NonTerm("E"), Term("+"), NonTerm("E")>>, <<Term("1")>>}]>>)

\* S := "a" A ;  A := "b" | epsilon
GOpt ==
  Grammars(NonTerm("S"),
    <<[nt |-> NonTerm("S"), rules |-> {<<Term("a"), NonTerm("A")>>}],
      [nt |-> NonTerm("A"), rules |-> {<<Term("b")>>, <<>>}]>>)

\* S := S S | "a" | epsilon
GLeft ==
  Grammars(NonTerm("S"),
    <<[nt |-> NonTerm("S"),
       rules |-> {<<NonTerm("S"), NonTerm("S")>>, <<Term("a")>>, <<>>}]>>)

\* a grammar that names the end marker:  S := "a" "$" "$" "$"
GEnd ==
  Grammars(NonTerm("S"),
    <<[nt |-> NonTerm("S"),
       rules |-> {<<Term("a"), Term("$"), Term("$"), Term("$")>>}]>>)

\* tests/test_parser.py G3:
\*   S := A C "a" B | A B "a" "a" ;  A := "a" A | "a" ;
\*   B := "b" B | "b" ;  C := "b" C | "b"
G3 ==
  Grammars(NonTerm("S"),
    <<[nt |-> NonTerm("S"),
       rules |-> {<<NonTerm("A"), NonTerm("C"), Term("a"), NonTerm("B")>>,
                  <<NonTerm("A"), NonTerm("B"), Term("a"), Term("a")>>}],
      [nt |-> NonTerm("A"), rules |-> {<<Term("a"), NonTerm("A")>>, <<Term("a")>>}],
      [nt |-> NonTerm("B"), rules |-> {<<Term("b"), NonTerm("B")>>, <<Term("b")>>}],
      [nt |-> NonTerm("C"), rules |-> {<<Term("b"), NonTerm("C")>>, <<Term("b")>>}]>>)

\* A := "x" | "y"
GPrune ==
  Grammars(NonTerm("A"),
    <<[nt |-> NonTerm("A"), rules |-> {<<Term("x")>>, <<Term("y")>>}]>>)

AllGrammars == G4 \cup GOpt \cup GLeft \cup GEnd \cup GPrune

\* the end marker GrammarPredictor.__init__ defaults to
EndMarker == Term("$")

\* the terminals a grammar names
Alphabet(g) ==
  {s \in UNION {SeqSet(rhs) :
                  rhs \in UNION {SeqSet(g.ruleDict[i].rules) : i \in 1..Len(g.ruleDict)}} :
     isTerm(s)}

\* the inputs of the parser tests (tests/test_parser.py PARSER_TESTS)
TestInputs ==
  {<<Term("1"), Term("+"), Term("1"), Term("+"), Term("1")>>,
   <<Term("a"), Term("b"), Term("a"), Term("a")>>}

\* the token lists handed to parse: every short list over the grammar's
\* terminals, and the test inputs over them; the simple grammar of the
\* parser tests is parsed with its test input only
TokenLists(g) ==
  (IF g \in G3 THEN {} ELSE UNION {[1..n -> Alphabet(g)] : n \in 0..MaxLen})
    \cup {w \in TestInputs : SeqSet(w) \subseteq Alphabet(g)}

\* the budgets handed to parse and continueParse
Budgets == {-1} \cup 0..MaxBudget

(* ------------------------------ the state ------------------------------ *)

VARIABLES
  grammar,              \* GLLParser.grammar: the GrammarPredictor
  parseInput,           \* GLLParser.parseInput
  workingSet,           \* GLLParser.workingSet
  totalSet,             \* GLLParser.totalSet
  callReturnForest,     \* GLLParser.callReturnForest
  contingentReturnSet,  \* GLLParser.contingentReturnSet
  bsrSet,               \* GLLParser.bsrSet
  pc,                   \* "new": constructed; "running": in continueParse's
                        \* loop; "idle": the call returned; "raised": the
                        \* call ended in an exception
  exc,                  \* the exception of pc = "raised"
  steps,                \* continueParse's local steps
  op,                   \* the public method called last: "parse" / "continueParse"
  budget,               \* the steps argument of that call
  retval,               \* what continueParse returned last (-1: nothing yet)
  popped,               \* history: the descriptors popped since the last parse
  worked,               \* history: the call made last has popped a descriptor
  reused,               \* history: the parse made last was not the engine's first
  fault,                \* history: a call since the last parse (that parse
                        \* included) has raised
  direct,               \* history: the calls since the last parse are
                        \* parse(tokens, b) with b >= 0 and at most one
                        \* continueParse(-1) after its return
  given,                \* the Grammar handed to GrammarPredictor
  earlier,              \* history: the predictor constructed for the grammar
                        \* that `given` was made from by adding a rhs (a set
                        \* of at most one)
  selected,             \* history: the testSelect call made last on the
                        \* predictor, with its outcome (a set of at most one)
  slotted,              \* history: the GrammarSlot(rule, index) call made
                        \* last, with its outcome (a set of at most one)
  decreased,            \* history: the closure(f, False)(s, g) call made
                        \* last, with its result (a set of at most one)
  scanned               \* history: the pairs <<terminal, position>> stepped
                        \* over since the last parse

engine == <<parseInput, workingSet, totalSet, callReturnForest, contingentReturnSet, bsrSet>>

vars == <<grammar, parseInput, workingSet, totalSet, callReturnForest,
          contingentReturnSet, bsrSet, pc, exc, steps, op, budget, retval,
          popped, worked, reused, fault, direct, given, earlier, selected, slotted,
          decreased, scanned, engineFile>>

\* what the construction of predictors works on, and what no call on an
\* engine changes
predictors == <<given, earlier, selected, slotted, decreased, engineFile>>

\* the engine as the record the operators above work on
Self ==
  [grammar |-> grammar, parseInput |-> parseInput, workingSet |-> workingSet,
   totalSet |-> totalSet, bsrSet |-> bsrSet, callReturnForest |-> callReturnForest,
   contingentReturnSet |-> contingentReturnSet, raised |-> "", scanned |-> {}]

Store(self) ==
  /\ parseInput' = self.parseInput
  /\ workingSet' = self.workingSet
  /\ totalSet' = self.totalSet
  /\ bsrSet' = self.bsrSet
  /\ callReturnForest' = self.callReturnForest
  /\ contingentReturnSet' = self.contingentReturnSet
  /\ exc' = self.raised

\* the attributes of a GLLParser that has not parsed, and the history of
\* no call
NoParse ==
  /\ parseInput = <<>>
  /\ workingSet = {}
  /\ totalSet = {}
  /\ bsrSet = {}
  /\ callReturnForest = EmptyDict
  /\ contingentReturnSet = EmptyDict
  /\ exc = ""
  /\ steps = 0
  /\ op = "none"
  /\ budget = 0
  /\ retval = -1
  /\ popped = {}
  /\ worked = FALSE
  /\ reused = FALSE
  /\ fault = FALSE
  /\ direct = FALSE
  /\ scanned = {}

\* a parser of src/pygll/pygll/parser.py constructed for the predictor of
\* one of the grammars gs
Constructed(gs) ==
  /\ engineFile = "pygll/pygll/parser.py"
  /\ given \in gs
  /\ grammar = GrammarPredictor(given, EndMarker)
  /\ earlier = {}
  /\ selected = {}
  /\ slotted = {}
  /\ decreased = {}
  /\ pc = "new"
  /\ NoParse

Init == Constructed(AllGrammars)

\* parser.parse(tokens, b), up to the first test of continueParse's loop
Parse ==
  /\ pc \in {"new", "idle", "raised"}
  /\ \E tokens \in TokenLists(grammar.grammar), b \in Budgets :
       LET s == parse_seed(Self, tokens)
       IN /\ Store(s)
          /\ pc' = IF s.raised # "" THEN "raised" ELSE "running"
          /\ steps' = b
          /\ budget' = b
          /\ fault' = (s.raised # "")
          /\ direct' = (b >= 0)
  /\ op' = "parse"
  /\ retval' = -1
  /\ popped' = {}
  /\ scanned' = {}
  /\ worked' = FALSE
  /\ reused' = (pc # "new")
  /\ UNCHANGED <<grammar, predictors>>

\* parser.continueParse(b) on an engine that has parsed, up to the first
\* test of the loop
ContinueParse ==
  /\ pc \in {"idle", "raised"}
  /\ \E b \in Budgets :
       /\ steps' = b
       /\ budget' = b
       /\ direct' = (direct /\ op = "parse" /\ pc = "idle" /\ b = -1)
  /\ pc' = "running"
  /\ exc' = ""
  /\ op' = "continueParse"
  /\ retval' = -1
  /\ worked' = FALSE
  /\ UNCHANGED <<grammar, engine, popped, scanned, reused, fault, predictors>>

\* one iteration of continueParse's loop
Step ==
  /\ pc = "running"
  /\ loopCond(Self, steps)
  /\ \E desc \in workingSet :
       LET r == continueParse_iter(Self, steps, desc)
       IN /\ Store(r.self)
          /\ steps' = r.steps
          /\ pc' = IF r.self.raised # "" THEN "raised" ELSE "running"
          /\ popped' = popped \cup {desc}
          /\ scanned' = scanned \cup r.self.scanned
          /\ worked' = TRUE
          /\ fault' = (fault \/ r.self.raised # "")
  /\ UNCHANGED <<grammar, op, budget, retval, reused, direct, predictors>>

\* the loop ends: continueParse returns len(workingSet)
Return ==
  /\ pc = "running"
  /\ ~ loopCond(Self, steps)
  /\ pc' = "idle"
  /\ retval' = Cardinality(workingSet)
  /\ UNCHANGED <<grammar, engine, exc, steps, op, budget, popped, scanned, worked,
                 reused, fault, direct, predictors>>

Next == Parse \/ ContinueParse \/ Step \/ Return

Spec == Init /\ [][Next]_vars

\* the parser of the parser tests' simple grammar
InitG3 == Constructed(G3)

SpecG3 == InitG3 /\ [][Next]_vars

\* S := "a" "b"
GSeq ==
  Grammars(NonTerm("S"),
    <<[nt |-> NonTerm("S"), rules |-> {<<Term("a"), Term("b")>>}]>>)

\* a parser of src/pygll/parser.py, constructed for a predictor that has
\* the attribute `end` its parse and getInput read
InitIndexGuard ==
  /\ engineFile = "pygll/parser.py"
  /\ given \in GSeq \cup G4 \cup GOpt
  /\ grammar = GrammarPredictor(given, EndMarker)
  /\ earlier = {}
  /\ selected = {}
  /\ slotted = {}
  /\ decreased = {}
  /\ pc = "new"
  /\ NoParse

SpecIndexGuard == InitIndexGuard /\ [][Next]_vars

(* ---------------- the construction of predictors ---------------------- *)

\* the right-hand sides the small grammars are made of
Pool ==
  {<<>>, <<Term("a")>>, <<Term("b")>>, <<NonTerm("A")>>,
   <<NonTerm("A"), NonTerm("B")>>}

\* the keys of their ruleDict, in insertion order
KeyOrders ==
  {<<NonTerm("S")>>, <<NonTerm("S"), NonTerm("A")>>, <<NonTerm("A"), NonTerm("S")>>,
   <<NonTerm("S"), NonTerm("A"), NonTerm("B")>>, <<NonTerm("A")>>}

\* every grammar with start S, one of these key lists and one rhs per key
SmallGrammars ==
  {Grammar(NonTerm("S"), [i \in 1..Len(keys) |-> [nt |-> keys[i], rules |-> <<f[i]>>]]) :
     <<keys, f>> \in UNION {{<<k, h>> : h \in [1..Len(k) -> Pool]} : k \in KeyOrders}}

\* the terminals testSelect is asked about
Lookaheads == {Term("a"), Term("b"), EndMarker}

\* no GrammarPredictor object yet
NoPredictor ==
  [grammar |-> Grammar(NonTerm("S"), <<>>), firstMap |-> EmptyDict,
   followMap |-> EmptyDict, end |-> EndMarker]

\* a grammar has been written down; nothing is constructed
GInit ==
  /\ engineFile = "pygll/pygll/parser.py"
  /\ given \in SmallGrammars
  /\ grammar = NoPredictor
  /\ earlier = {}
  /\ selected = {}
  /\ slotted = {}
  /\ decreased = {}
  /\ pc = "given"
  /\ NoParse

\* GrammarPredictor(given)
Construct ==
  /\ pc = "given"
  /\ grammar' = GrammarPredictor(given, EndMarker)
  /\ pc' = "new"
  /\ UNCHANGED <<engine, exc, steps, op, budget, retval, popped, scanned, worked,
                 reused, fault, direct, predictors>>

\* predictor.testSelect(term, nonterm, word); one call is followed per
\* predictor
TestSelect ==
  /\ pc = "new" /\ op = "none"
  /\ selected = {} /\ slotted = {} /\ decreased = {}
  /\ \E term \in Lookaheads, nonterm \in GrammarKeys(given), word \in Pool :
       selected' = {[term |-> term, nonterm |-> nonterm, word |-> word,
                     outcome |-> testSelect(grammar, term, nonterm, word)]}
  /\ UNCHANGED <<grammar, engine, pc, exc, steps, op, budget, retval, popped, worked,
                 reused, fault, direct, given, earlier, slotted, decreased, scanned,
                 engineFile>>

\* the caller adds one rhs to a rule set of the grammar, the set then
\* iterating in any order, to construct a predictor for the new grammar
AddRhs ==
  /\ pc = "new" /\ op = "none"
  /\ earlier = {} /\ slotted = {} /\ decreased = {}
  /\ \E i \in 1..Len(given.ruleDict) :
       \E rhs \in Pool \ SeqSet(given.ruleDict[i].rules) :
         \E o \in Orders(SeqSet(given.ruleDict[i].rules) \cup {rhs}) :
           given' = [given EXCEPT !.ruleDict[i].rules = o]
  /\ earlier' = {grammar}
  /\ selected' = {}
  /\ pc' = "given"
  /\ UNCHANGED <<grammar, engine, exc, steps, op, budget, retval, popped, worked,
                 reused, fault, direct, slotted, decreased, scanned, engineFile>>

\* the rules of tests/test_parser.py test_grammar_format
FormatRules ==
  {Rule(NonTerm("A"), <<Term("P"), NonTerm("R"), Term("Q")>>),
   Rule(NonTerm("A"), <<NonTerm("P"), NonTerm("Q")>>)}

\* the rules slots are made for: those of the tests and of the grammar
SlotRules ==
  FormatRules \cup
    UNION {{Rule(n, rhs) : rhs \in SeqSet(GrammarGet(given, n))} : n \in GrammarKeys(given)}

\* the indices slots are asked for
SlotIndices == -1 .. MaxLen + 1

\* GrammarSlot(rule, index): the dataclass stores its fields and runs
\* __post_init__; a raising __post_init__ leaves the caller without a slot.
\* One call is followed per predictor.
MakeSlot ==
  /\ pc = "new" /\ op = "none"
  /\ slotted = {} /\ selected = {} /\ earlier = {} /\ decreased = {}
  /\ \E rule \in SlotRules, index \in SlotIndices :
       LET err == GrammarSlotCheck(rule, index)
       IN slotted' = {[rule |-> rule, index |-> index, raised |-> err,
                       made |-> IF err = "" THEN {GrammarSlot(rule, index)} ELSE {}]}
  /\ UNCHANGED <<grammar, engine, pc, exc, steps, op, budget, retval, popped, worked,
                 reused, fault, direct, given, earlier, selected, decreased, scanned,
                 engineFile>>

\* closure(supported_1, False)(s, given) for a set s of the grammar's
\* nonterminals; one call is followed per predictor
Decrease ==
  /\ pc = "new" /\ op = "none"
  /\ slotted = {} /\ selected = {} /\ earlier = {} /\ decreased = {}
  /\ \E s \in SUBSET GrammarKeys(given) :
       decreased' = {[s |-> s, result |-> closure("supported_1", FALSE, s, given)]}
  /\ UNCHANGED <<grammar, engine, pc, exc, steps, op, budget, retval, popped, worked,
                 reused, fault, direct, given, earlier, selected, slotted, scanned,
                 engineFile>>

GNext == Construct \/ TestSelect \/ AddRhs \/ MakeSlot \/ Decrease

GrammarSpec == GInit /\ [][GNext]_vars

\* the interpreter runs a started call on: the loop steps and returns
FairSpec == Spec /\ WF_vars(Step) /\ WF_vars(Return)

(* ------------------- the language of a grammar ------------------------ *)

\* rhs from symbol k on derives tokens i+1..j of w, given the spans D
\* (triples <<nonterminal, i, j>>) already known to be derivable
RECURSIVE Matches(_, _, _, _, _, _)
Matches(rhs, k, i, j, D, w) ==
  IF k > Len(rhs) THEN i = j
  ELSE IF isTerm(rhs[k])
  THEN i < j /\ w[i + 1] = rhs[k] /\ Matches(rhs, k + 1, i + 1, j, D, w)
  ELSE \E m \in i..j : <<rhs[k], i, m>> \in D /\ Matches(rhs, k + 1, m, j, D, w)

\* the least set of derivable spans that contains D
RECURSIVE Spans(_, _, _)
Spans(D, g, w) ==
  LET D2 == D \cup
        {t \in {<<g.ruleDict[e].nt, i, j>> :
                  e \in 1..Len(g.ruleDict), i \in 0..Len(w), j \in 0..Len(w)} :
           /\ t[2] <= t[3]
           /\ \E rhs \in SeqSet(GrammarGet(g, t[1])) : Matches(rhs, 1, t[2], t[3], D, w)}
  IN IF D2 = D THEN D ELSE Spans(D2, g, w)

\* start =>* w
Derives(g, w) == <<g.start, 0, Len(w)>> \in Spans({}, g, w)

(* ---------------------- properties of the engine ---------------------- *)

\* the token list of the parse made last
Tokens == SubSeq(parseInput, 1, Len(parseInput) - 1)

\* the engine has run to workRemaining() = 0
Done == pc = "idle" /\ workingSet = {}

\* the grammar keeps the end marker for the end of the input
Plain == EndMarker \notin Alphabet(grammar.grammar)

\* no call since the last parse has raised
NoFault == pc # "new" /\ ~ fault

\* the Alt nodes that make the engine accept
AcceptingAlts ==
  {b \in bsrSet : /\ b.type = "Alt"
                  /\ b.label.lhs = grammar.grammar.start
                  /\ b.lext = 0
                  /\ b.rext = Len(Tokens)}

Accepted == AcceptingAlts # {}

\* a run of parse(tokens, -1) to its end with one fixed extraction order
RECURSIVE RunToEnd(_)
RunToEnd(self) ==
  IF self.raised # "" \/ self.workingSet = {} THEN self
  ELSE RunToEnd(process(self, CHOOSE d \in self.workingSet : TRUE))

\* the run of parse(tokens, -1) on a fresh parser for the same predictor
\* and the same tokens, with the fixed extraction order
Reference == RunToEnd(parse_seed(GLLParser(grammar), Tokens))

\* C1: whatever order the descriptors are popped in, a run to
\* workRemaining() = 0 ends with one and the same bsrSet: the one the run
\* with the fixed extraction order ends with.
C1_OrderIndependent ==
  (Done /\ NoFault /\ Reference.raised = "") => bsrSet = Reference.bsrSet

\* C2: once the engine has run to workRemaining() = 0, bsrSet holds an Alt
\* node (rule, 0, p, n) of the start symbol if and only if start derives
\* the token list.
C2_AcceptanceEquivalence ==
  (Done /\ NoFault) => (Accepted <=> Derives(grammar.grammar, Tokens))

\* C3: parse(w, b) with b >= 0 followed by continueParse(-1) ends with the
\* bsrSet a single parse(w, -1) ends with.
C3_BudgetLaw ==
  (Done /\ direct /\ op = "continueParse" /\ Reference.raised = "")
    => bsrSet = Reference.bsrSet

\* C4: a call continueParse(-1) eventually returns, and then
\* workRemaining() = 0 (stated for the grammars that keep the end marker
\* for the end of the input, and the calls before which nothing has raised
\* since the parse).
C4_Termination ==
  (Plain /\ ~ fault /\ pc = "running" /\ budget = -1)
    ~> (pc = "idle" /\ workingSet = {})

\* C5: workingSet is a subset of totalSet, and a descriptor popped in this
\* run is not in workingSet again, so none is popped twice.
C5_DescriptorUniqueness ==
  /\ workingSet \subseteq totalSet
  /\ popped \cap workingSet = {}

\* ntAdd(start, 0) has run a second time (the start symbol called itself at
\* position 0) after descriptors it offers were popped
C5_Witness ==
  /\ CallRecord(grammar.grammar.start, 0) \in DOMAIN callReturnForest
  /\ callReturnForest[CallRecord(grammar.grammar.start, 0)] # {}
  /\ \E d \in popped : d.slot.index = 0 /\ d.index = 0
  /\ workingSet # {}

\* C6: every node of bsrSet has 0 <= lext <= pivot <= rext <= |input| + 1,
\* input being the token list with the end marker appended, and a node
\* whose label ends in a terminal has rext = pivot + 1.
C6_BSRRange ==
  \A b \in bsrSet :
    /\ 0 <= b.lext /\ b.lext <= b.pivot /\ b.pivot <= b.rext
    /\ b.rext <= Len(parseInput) + 1
    /\ isTerm(LabelSyms(b)[Len(LabelSyms(b))]) => b.rext = b.pivot + 1

C6_Witness ==
  \E b \in bsrSet :
    /\ b.rext = Len(parseInput) + 1
    /\ isTerm(LabelSyms(b)[Len(LabelSyms(b))])

\* C7, on return: the value returned is the size of workingSet; a positive
\* budget is used up or workingSet is empty; a negative budget leaves
\* workingSet empty; parse(tokens, 0) leaves the seeded descriptors pending
\* and bsrSet empty.
C7_OnReturn ==
  pc = "idle" =>
    /\ retval = Cardinality(workingSet)
    /\ budget > 0 => (0 <= steps /\ steps <= budget /\ (steps = 0 \/ workingSet = {}))
    /\ budget < 0 => workingSet = {}
    /\ budget = 0 => ~ worked
    /\ (budget = 0 /\ op = "parse") =>
         (bsrSet = {} /\ popped = {} /\ workingSet = totalSet)

\* C7, step by step: a call with budget 0 changes no engine state; a loop
\* iteration takes one descriptor out of workingSet and, under a positive
\* budget, one unit off the budget; with the budget used up or workingSet
\* empty the call returns at once.
C7_EachStep ==
  /\ (op' = "continueParse" /\ budget' = 0) => engine' = engine
  /\ (pc = "running" /\ pc' \in {"running", "raised"}) =>
       /\ \E d \in workingSet : popped' = popped \cup {d} /\ d \notin popped
       /\ steps # 0
       /\ steps' = IF budget > 0 THEN steps - 1 ELSE steps
  /\ (pc = "running" /\ (steps = 0 \/ workingSet = {})) =>
       (pc' = "idle" /\ engine' = engine)

\* C7: the budget semantics of continueParse(budget).
C7_BudgetSemantics == [] C7_OnReturn /\ [][C7_EachStep]_vars

C7_Witness ==
  /\ pc = "idle" /\ op = "continueParse"
  /\ budget = MaxBudget /\ steps = 0 /\ worked
  /\ workingSet # {} /\ retval = Cardinality(workingSet)

\* C8: right after parse(tokens, 0) the engine state is the one a freshly
\* constructed parser has right after parse(tokens, 0).
C8_ParseReinitialises ==
  (op = "parse" /\ budget = 0 /\ pc = "idle") =>
     Self = parse_seed(GLLParser(grammar), Tokens)

\* parse(tokens, 0) has returned on an engine that had parsed before
C8_Witness ==
  /\ op = "parse" /\ budget = 0 /\ pc = "idle" /\ reused
  /\ workingSet # {}

\* C9: for a token list outside the language no call raises, and no
\* accepting Alt node is in bsrSet (stated for the grammars that keep the
\* end marker for the end of the input).
C9_RejectsSilently ==
  (Plain /\ pc # "new" /\ ~ Derives(grammar.grammar, Tokens))
    => (pc # "raised" /\ ~ Accepted)

\* the rule E := E "+" E
PlusRule == Rule(NonTerm("E"), <<NonTerm("E"), Term("+"), NonTerm("E")>>)

\* C10: for E := E "+" E | "1" and 1+1+1 every run to workRemaining() = 0
\* accepts, with two Alt nodes of E := E "+" E over (0, 5) of different
\* pivots.
C10_AmbiguousBothDerivations ==
  (/\ Done /\ NoFault
   /\ grammar.grammar \in G4
   /\ Tokens = <<Term("1"), Term("+"), Term("1"), Term("+"), Term("1")>>)
  => /\ Accepted
     /\ \E b1, b2 \in AcceptingAlts :
          b1.label = PlusRule /\ b2.label = PlusRule /\ b1.pivot # b2.pivot

\* the rules S := epsilon of the start symbol, if it has one
StartEpsilon == Rule(grammar.grammar.start, <<>>)

\* C11: for S := S S | "a" | epsilon and input aaa, parse(tokens, -1) does
\* not raise, and once it has returned workRemaining() = 0 and bsrSet holds
\* an Alt node of S over (0, 3).
C11_LeftRecursion ==
  (/\ grammar.grammar \in GLeft
   /\ op = "parse" /\ budget = -1
   /\ Tokens = <<Term("a"), Term("a"), Term("a")>>)
  => /\ pc # "raised"
     /\ pc = "idle" => (workingSet = {} /\ Accepted)

\* C12: once parse([], -1) has ended for a grammar whose start symbol A
\* has the rule A := epsilon, bsrSet holds Alt(A := epsilon, 0, 0, 0).
C12_EpsilonEmitted ==
  (/\ <<>> \in SeqSet(GrammarGet(grammar.grammar, grammar.grammar.start))
   /\ op = "parse" /\ budget = -1 /\ pc \in {"idle", "raised"}
   /\ Tokens = <<>>)
  => BSRAltNode(StartEpsilon, 0, 0, 0) \in bsrSet

\* C14: every descriptor of totalSet with a slot at index 0 is
\* Descriptor(Slot(N := rhs, 0), i, i) for an rhs of N that passes
\* testSelect(input[i], N, rhs); for A := "x" | "y" on input x no
\* descriptor of the "y" alternative is in totalSet.
C14_PredictivePruning ==
  /\ \A d \in totalSet :
       d.slot.index = 0 =>
         /\ d.callIndex = d.index
         /\ d.index < Len(parseInput)
         /\ d.slot.rule.rhs \in SeqSet(GrammarGet(grammar.grammar, d.slot.rule.lhs))
         /\ testSelect(grammar, parseInput[d.index + 1], d.slot.rule.lhs, d.slot.rule.rhs)
              = [raised |-> "", value |-> TRUE]
  /\ (grammar.grammar \in GPrune /\ pc # "new" /\ Tokens = <<Term("x")>>) =>
       \A d \in totalSet : d.slot.rule.rhs # <<Term("y")>>

\* A := "x" | "y" has parsed x to the end: the "x" alternative was
\* enqueued and popped
C14_Witness ==
  /\ grammar.grammar \in GPrune /\ Tokens = <<Term("x")>>
  /\ Done /\ NoFault /\ Accepted
  /\ \E d \in popped : d.slot.rule.rhs = <<Term("x")>> /\ d.slot.index = 0

\* the rule S := A B "a" "a"
ABaaRule ==
  Rule(NonTerm("S"), <<NonTerm("A"), NonTerm("B"), Term("a"), Term("a")>>)

\* C13: for the simple grammar and input abaa, every run to
\* workRemaining() = 0 accepts, with an Alt node of S := A B "a" "a" over
\* (0, 4) in bsrSet.
C13_SimpleCFG ==
  (/\ grammar.grammar \in G3
   /\ Tokens = <<Term("a"), Term("b"), Term("a"), Term("a")>>
   /\ Done /\ NoFault)
  => /\ Accepted
     /\ \E b \in AcceptingAlts : b.label = ABaaRule

\* abaa has been parsed to the end in two calls, parse(tokens, b) and
\* continueParse, and is accepted
C13_Witness ==
  /\ grammar.grammar \in G3
  /\ Tokens = <<Term("a"), Term("b"), Term("a"), Term("a")>>
  /\ Done /\ NoFault /\ op = "continueParse" /\ worked
  /\ \E b \in AcceptingAlts : b.label = ABaaRule

(* ------------------- properties of the predictor ---------------------- *)

\* the same start and the same map from nonterminals to rhs sets
SameGrammar(g1, g2) ==
  /\ g1.start = g2.start
  /\ GrammarKeys(g1) = GrammarKeys(g2)
  /\ \A n \in GrammarKeys(g1) : SeqSet(GrammarGet(g1, n)) = SeqSet(GrammarGet(g2, n))

\* g without its unproductive, then without its unreachable nonterminals
Pruned(g) ==
  shrink(shrink(g, productive(g)), reachable(shrink(g, productive(g))))

\* the nonterminals of the small grammars
SmallNonTerms == {NonTerm("S"), NonTerm("A"), NonTerm("B")}

\* every nonterminal a rhs of g names is a key of g
Closed(g) ==
  \A n \in GrammarKeys(g) : \A rhs \in SeqSet(GrammarGet(g, n)) :
    \A sym \in SeqSet(rhs) : isNonTerm(sym) => sym \in GrammarKeys(g)

\* C15: preprocess(G) is shrink(shrink(G, productive(G)),
\* reachable(shrink(G, productive(G)))), and the grammar a constructed
\* GrammarPredictor holds is that pruned grammar (stated for the grammars
\* that have rules for every nonterminal they name).
C15_PreprocessPrunes ==
  (pc = "new" /\ Closed(given)) =>
    /\ SameGrammar(preprocess(given), Pruned(given))
    /\ SameGrammar(grammar.grammar, Pruned(given))

\* C16: preprocess(preprocess(G)) = preprocess(G), the grammar of a
\* constructed predictor being preprocess(G).
C16_PreprocessIdempotent ==
  pc = "new" =>
    /\ SameGrammar(preprocess(preprocess(given)), preprocess(given))
    /\ SameGrammar(preprocess(grammar.grammar), grammar.grammar)

\* a predictor has been constructed for a grammar with a nonterminal that
\* is unproductive or unreachable
C16_Witness ==
  /\ pc = "new" /\ op = "none"
  /\ ~ SameGrammar(Pruned(given), given)
  /\ grammar.grammar = preprocess(given)

\* C17: every nonterminal of reachable(preprocess(G)) is in productive(G)
\* (stated for the grammars that have rules for every nonterminal they
\* name).
C17_Containment ==
  (pc = "new" /\ Closed(given)) =>
    reachable(preprocess(given)) \subseteq productive(given)

\* C18: Epsilon is in buildFirst(G)[N] if and only if N is in nullable(G),
\* for every nonterminal N of G.
C18_NullableConsistency ==
  pc = "new" =>
    \A n \in GrammarKeys(given) :
      (Epsilon \in DictGet(buildFirst(given), n)) <=> (n \in nullable(given))

\* C19: when G' is G with one rhs added, buildFirst(G')[N] is a superset of
\* buildFirst(G)[N] and buildFollow(G')[N] of buildFollow(G)[N], for every
\* nonterminal N.
C19_Monotone ==
  (pc = "new" /\ earlier # {}) =>
    \A e \in earlier : \A n \in SmallNonTerms :
      /\ DictGet(e.firstMap, n) \subseteq DictGet(grammar.firstMap, n)
      /\ DictGet(e.followMap, n) \subseteq DictGet(grammar.followMap, n)

\* C20: testSelect(t, N, word) raises nothing and returns true exactly when
\* t is in FIRST(word), or Epsilon is in FIRST(word) and t is in the
\* predictor's FOLLOW(N).
C20_TestSelect ==
  \A c \in selected :
    /\ c.outcome.raised = ""
    /\ c.outcome.value <=>
         \/ c.term \in first(grammar.firstMap, c.word)
         \/ /\ Epsilon \in first(grammar.firstMap, c.word)
            /\ c.term \in DictGet(grammar.followMap, c.nonterm)
\* the nonterminals a grammar has rules for or names in a rhs
NonTerms(g) ==
  GrammarKeys(g) \cup
    {s \in UNION {SeqSet(rhs) :
                    rhs \in UNION {SeqSet(g.ruleDict[i].rules) : i \in 1..Len(g.ruleDict)}} :
       isNonTerm(s)}

\* the occurrences <<lhs, rhs, i>> of a nonterminal in a rhs of g
Occurrences(g) ==
  {o \in UNION {{<<n, rhs, i>> : i \in 1..Len(rhs)} :
                  <<n, rhs>> \in UNION {{<<k, r>> : r \in SeqSet(GrammarGet(g, k))} :
                                          k \in GrammarKeys(g)}} :
     isNonTerm(o[2][o[3]])}

\* what rules (a), (b) and (c) of FOLLOW ask FOLLOW(m) to hold, given the
\* map fol: for each occurrence alpha m beta in a rhs of lhs, FIRST(beta)
\* without Epsilon, and fol[lhs] when Epsilon is in FIRST(beta)
FollowStep(g, firstMap, end, fol) ==
  [m \in NonTerms(g) |->
     fol[m] \cup (IF m = g.start THEN {end} ELSE {}) \cup
       UNION {LET fb == first(firstMap, SubSeq(o[2], o[3] + 1, Len(o[2])))
              IN (fb \ {Epsilon}) \cup (IF Epsilon \in fb THEN fol[o[1]] ELSE {}) :
              o \in {x \in Occurrences(g) : x[2][x[3]] = m}}]

\* the least map closed under the step
RECURSIVE FollowFix(_, _, _, _)
FollowFix(g, firstMap, end, fol) ==
  LET fol2 == FollowStep(g, firstMap, end, fol)
  IN IF fol2 = fol THEN fol ELSE FollowFix(g, firstMap, end, fol2)

LeastFollow(g, firstMap, end) ==
  FollowFix(g, firstMap, end, [m \in NonTerms(g) |-> {}])

\* C21: the followMap of a constructed predictor is the least map with
\* (a) end in FOLLOW(start), (b) FIRST(beta) without Epsilon in FOLLOW(N)
\* for every rhs alpha N beta, (c) FOLLOW(lhs) in FOLLOW(N) when Epsilon is
\* in FIRST(beta); FIRST is taken in the firstMap that buildFollow was given.
C21_FollowLeast ==
  pc = "new" =>
    \A m \in NonTerms(grammar.grammar) :
      DictGet(grammar.followMap, m)
        = LeastFollow(grammar.grammar, grammar.firstMap, grammar.end)[m]
\* C22: GrammarSlot(rule, index) yields a slot when 0 <= index <= |rhs|
\* and raises ValueError when index > |rhs| or index < 0; every slot made
\* has its index in range.
C22_SlotRange ==
  \A c \in slotted :
    /\ (0 <= c.index /\ c.index <= Len(c.rule.rhs)) =>
         (c.raised = "" /\ c.made = {GrammarSlot(c.rule, c.index)})
    /\ (c.index < 0 \/ c.index > Len(c.rule.rhs)) =>
         (c.raised = "ValueError" /\ c.made = {})
    /\ \A slot \in c.made : 0 <= slot.index /\ slot.index <= Len(slot.rule.rhs)

\* a slot one past the end of a rhs was asked for and refused (the case of
\* test_grammar_format)
C22_Witness ==
  \E c \in slotted :
    /\ c.index = Len(c.rule.rhs) + 1
    /\ c.rule \in FormatRules
    /\ c.raised = "ValueError"
\* the start symbol is unproductive, or is no key of the productions, or
\* has no rule
Degenerate(g) ==
  \/ g.start \notin productive(g)
  \/ g.start \notin GrammarKeys(g)
  \/ GrammarGet(g, g.start) = <<>>

\* C23: GrammarPredictor(G) for a grammar whose start symbol is
\* unproductive, or has no rules, or is no key of the productions, does not
\* end with a predictor: one stands constructed only for the other grammars.
C23_DegeneracySurfaced ==
  pc = "new" => ~ Degenerate(given)
\* the nodes bsrAdd(slot, lext, pivot, rext) emits: none or one
Emitted(slot, lext, pivot, rext) ==
  bsrAdd(GLLParser(grammar), slot, lext, pivot, rext).bsrSet

\* C24: once a call has returned with workRemaining() = 0, for every call
\* record (M, i), every return address (slot, c) of callReturnForest[M, i]
\* and every position j of contingentReturnSet[M, i], the descriptor
\* (slot, c, j) is in totalSet and the node of bsrAdd(slot, c, i, j) is in
\* bsrSet.
C24_PairingComplete ==
  (Done /\ NoFault) =>
    \A rec \in DOMAIN callReturnForest :
      \A a \in callReturnForest[rec] :
        \A j \in DictGet(contingentReturnSet, rec) :
          /\ Descriptor(a.slot, a.callIndex, j) \in totalSet
          /\ Emitted(a.slot, a.callIndex, rec.index, j) \subseteq bsrSet
\* C25: every terminal that continueParse has stepped over at position p
\* (bsrAdd(..., p, p + 1), offset increased) is the input token at p: what
\* getInput gives there, and for a grammar that keeps the end marker for
\* the end of the input, token p of the token list.
C25_ScannedMatch ==
  \A s \in scanned :
    /\ 0 <= s[2]
    /\ getInput(Self, s[2]) = [raised |-> "", value |-> s[1]]
    /\ Plain => (s[2] < Len(Tokens) /\ Tokens[s[2] + 1] = s[1])

\* a run to the end has stepped over a terminal at a position after the
\* first and over one that is not the first symbol of its rhs
C25_Witness ==
  /\ Done /\ NoFault
  /\ \E s \in scanned : s[2] >= 1
  /\ \E d \in popped :
       /\ d.slot.index = 0 /\ Len(d.slot.rule.rhs) >= 2
       /\ <<d.slot.rule.rhs[2], d.index + 1>> \in scanned
\* the input as getInput gives it: the token list, the end marker parse
\* appended, and the end marker at the position after
InputView == parseInput \o <<grammar.end>>

\* the rhs of an Alt node derives the tokens lext .. rext - 1
Backed(b) ==
  /\ b.rext <= Len(InputView)
  /\ Matches(b.label.rhs, 1, b.lext, b.rext,
             Spans({}, grammar.grammar, InputView), InputView)

ntAdd_Ungated(self, nonterm, index) ==
  ntAdd_from_NoSelect(self, nonterm, index, GrammarGet(self.grammar.grammar, nonterm), 1)

call_Ungated(self, slot, callIndex, index) ==
  LET sym    == pred(slot)
      record == CallRecord(sym.value, index)
      s1     == [self EXCEPT !.callReturnForest = DictTouch(@, {record})]
  IN IF sym.raised = "" /\ s1.callReturnForest[record] = {}
     THEN ntAdd_Ungated(
            [s1 EXCEPT !.callReturnForest[record] = {CallReturnAddress(slot, callIndex)}],
            sym.value, index)
     ELSE call(self, slot, callIndex, index)

RECURSIVE scan_Ungated(_, _, _, _, _)
scan_Ungated(self, slot, callIndex, index, offset) ==
  LET sfx   == suffix(slot)
      focus == getInput(self, index + offset)
      ts    == IF needSelect(slot, offset)
               THEN testSelect(self.grammar, focus.value, slot.rule.lhs,
                               SubSeq(sfx, offset + 1, Len(sfx)))
               ELSE [raised |-> "", value |-> TRUE]
  IN IF Len(sfx) - offset > 0 /\ focus.raised = "" /\ ts.raised = "" /\ ts.value
     THEN IF isNonTerm(sfx[offset + 1])
          THEN call_Ungated(self, update(slot, offset + 1), callIndex, index + offset)
          ELSE LET s1 == bsrAdd(self, update(slot, offset + 1), callIndex,
                                index + offset, index + offset + 1)
               IN IF s1.raised # "" THEN s1
                  ELSE scan_Ungated(s1, slot, callIndex, index, offset + 1)
     ELSE scan(self, slot, callIndex, index, offset)

process_Ungated(self, desc) ==
  LET s1 == [self EXCEPT !.workingSet = @ \ {desc}]
  IN IF Len(desc.slot.rule.rhs) = 0 THEN s1
     ELSE scan_Ungated(s1, desc.slot, desc.callIndex, desc.index, 0)

RECURSIVE RunToEnd_Ungated(_)
RunToEnd_Ungated(self) ==
  IF self.raised # "" \/ self.workingSet = {} THEN self
  ELSE RunToEnd_Ungated(process_Ungated(self, CHOOSE d \in self.workingSet : TRUE))

\* parse(tokens, -1) of that engine on a fresh parser for the same predictor
Ungated ==
  RunToEnd_Ungated(
    ntAdd_Ungated([GLLParser(grammar) EXCEPT !.parseInput = Tokens \o <<grammar.end>>],
                  grammar.grammar.start, 0))

\* the Alt nodes of a bsrSet whose rhs derives the range they span
BackedAlts(bsr) == {b \in bsr : b.type = "Alt" /\ Backed(b)}

\* C27: a run of the engine to workRemaining() = 0 and the run of the
\* engine without the testSelect test in ntAdd end with the same accept /
\* reject decision and the same Alt nodes over derivable ranges (stated for
\* the grammars that keep the end marker for the end of the input).
C27_GateOptional ==
  (Plain /\ Done /\ NoFault) =>
    /\ Ungated.raised = ""
    /\ Accepted <=> (\E b \in Ungated.bsrSet :
                       /\ b.type = "Alt" /\ b.label.lhs = grammar.grammar.start
                       /\ b.lext = 0 /\ b.rext = Len(Tokens))
    /\ BackedAlts(bsrSet) = BackedAlts(Ungated.bsrSet)
\* the rhs of the grammar, and their prefixes of two or more symbols that
\* are not the whole rhs
AllRhs == UNION {SeqSet(GrammarGet(grammar.grammar, n)) : n \in GrammarKeys(grammar.grammar)}

PackedLabels == UNION {{SubSeq(rhs, 1, k) : k \in 2 .. Len(rhs) - 1} : rhs \in AllRhs}

\* C28: bsrAdd(slot, lext, pivot, rext) adds Alt(slot.rule, ...) for a slot
\* at its final position, Packed(slot.prefix, ...) for a non-final slot
\* with a prefix of two or more symbols, and nothing for a non-final slot
\* with a prefix of none or one; bsrSet holds no packed node with a label
\* shorter than two symbols or with a whole rhs as its label, and holds the
\* node of every descriptor that a call or a return has enqueued.
C28_BSRClassification ==
  /\ \A b \in bsrSet :
       /\ b.type = "Tree" =>
            (Len(b.label.symbols) >= 2 /\ b.label.symbols \in PackedLabels)
       /\ b.type = "Alt" =>
            b.label.rhs \in SeqSet(GrammarGet(grammar.grammar, b.label.lhs))
  /\ \A d \in totalSet :
       LET final == d.slot.index = Len(d.slot.rule.rhs)
       IN /\ Len(d.slot.rule.rhs) > 0 =>
               Emitted(d.slot, 0, 0, 1) =
                 IF final THEN {BSRAltNode(d.slot.rule, 0, 0, 1)}
                 ELSE IF d.slot.index >= 2 THEN {BSRTreeNode(prefix(d.slot), 0, 0, 1)}
                 ELSE {}
          /\ (~ fault /\ d.slot.index >= 1 /\ final) =>
               \E p \in 0 .. d.index :
                 BSRAltNode(d.slot.rule, d.callIndex, p, d.index) \in bsrSet
          /\ (~ fault /\ d.slot.index >= 2 /\ ~ final) =>
               \E p \in 0 .. d.index :
                 BSRTreeNode(prefix(d.slot), d.callIndex, p, d.index) \in bsrSet

\* a run has emitted an Alt node and a packed node, and has enqueued a
\* return to a slot after one symbol, for which nothing is emitted, and a
\* return to a final slot after two or more
C28_Witness ==
  /\ \E b \in bsrSet : b.type = "Alt"
  /\ \E b \in bsrSet : b.type = "Tree"
  /\ \E d \in totalSet : d.slot.index = 1 /\ Len(d.slot.rule.rhs) > 1
  /\ \E d \in totalSet : d.slot.index >= 2 /\ d.slot.index = Len(d.slot.rule.rhs)
\* one round of FIRST: to each nonterminal's set, FIRST of each of its rhs
FirstStep(g, fm) ==
  [n \in NonTerms(g) |->
     fm[n] \cup UNION {first(fm, rhs) : rhs \in SeqSet(GrammarGet(g, n))}]

\* the least map closed under the round
RECURSIVE FirstFix(_, _)
FirstFix(g, fm) ==
  LET fm2 == FirstStep(g, fm)
  IN IF fm2 = fm THEN fm ELSE FirstFix(g, fm2)

LeastFirst(g) == FirstFix(g, [n \in NonTerms(g) |-> {}])

\* C29: for every nonterminal N of G, buildFirst(G)[N] is the union over
\* the rhs of N of first(buildFirst(G), rhs), and buildFirst(G) is the
\* least such map, whatever order the rules are iterated in.
C29_FirstFixedPoint ==
  pc = "new" =>
    \A n \in GrammarKeys(given) :
      /\ DictGet(buildFirst(given), n)
           = UNION {first(buildFirst(given), rhs) : rhs \in SeqSet(GrammarGet(given, n))}
      /\ DictGet(buildFirst(given), n) = LeastFirst(given)[n]
\* one round of productivity: the nonterminals with a rhs all of whose
\* symbols are terminals or in P
ProductiveStep(g, P) ==
  {n \in GrammarKeys(g) :
     \E rhs \in SeqSet(GrammarGet(g, n)) :
       \A sym \in SeqSet(rhs) : isTerm(sym) \/ sym \in P}

RECURSIVE ProductiveFix(_, _)
ProductiveFix(g, P) ==
  LET P2 == P \cup ProductiveStep(g, P)
  IN IF P2 = P THEN P ELSE ProductiveFix(g, P2)

\* C30: productive(G) is the least set P with N in P iff N has a rhs all
\* of whose symbols are terminals or in P; a nonterminal without rules is
\* not in it.
C30_ProductiveLeast ==
  pc = "new" =>
    /\ productive(given) = ProductiveFix(given, {})
    /\ productive(given) = ProductiveStep(given, productive(given))
    /\ productive(given) \subseteq GrammarKeys(given)

\* a predictor stands for a grammar whose start symbol is productive
\* through another nonterminal that comes later in the productions, next to
\* a nonterminal that is unproductive
C30_Witness ==
  /\ pc = "new" /\ op = "none"
  /\ Len(given.ruleDict) >= 2
  /\ given.ruleDict[1].nt = given.start
  /\ \E rhs \in SeqSet(GrammarGet(given, given.start)) :
       \E sym \in SeqSet(rhs) : isNonTerm(sym) /\ sym # given.start /\ sym \in productive(given)
  /\ given.start \in productive(given)
  /\ NonTerms(given) \ productive(given) # {}
\* C31: closure(F, False)(S0, ctx) for a step F that only removes returns
\* a set S, within S0, that F shrinks no further: |F(S, ctx)| = |S|.
C31_DecreasingClosure ==
  \A c \in decreased :
    /\ c.result \subseteq c.s
    /\ Cardinality(supported_1(c.result, given)) = Cardinality(c.result)
\* C32: in the engine of src/pygll/pygll/parser.py every Alt node
\* (rule, lext, pivot, rext) of bsrSet is backed by a derivation: the rhs
\* of the rule derives the input tokens lext .. rext - 1, its last symbol
\* those from pivot on. So a token list the engine accepts is derived by
\* start.
C32_BSRSound ==
  engineFile = "pygll/pygll/parser.py" =>
    LET D == Spans({}, grammar.grammar, InputView)
    IN /\ \A b \in bsrSet :
            b.type = "Alt" =>
              /\ b.lext <= b.pivot /\ b.pivot <= b.rext
              /\ b.rext <= Len(InputView)
              /\ Matches(b.label.rhs, 1, b.lext, b.rext, D, InputView)
              /\ Len(b.label.rhs) > 0 =>
                   Matches(<<b.label.rhs[Len(b.label.rhs)]>>, 1, b.pivot, b.rext,
                           D, InputView)
       /\ Accepted => <<grammar.grammar.start, 0, Len(Tokens)>> \in D

\* a run to the end has accepted two tokens or more, by an Alt node whose
\* rhs ends with a nonterminal that spans a token
C32_Witness ==
  /\ Done /\ NoFault /\ Plain
  /\ Len(Tokens) >= 2
  /\ \E b \in AcceptingAlts :
       /\ isNonTerm(b.label.rhs[Len(b.label.rhs)])
       /\ b.pivot < b.rext
\* the positions at which the input has been looked up since the last
\* parse: 0 by parse's ntAdd, the index of every descriptor popped with a
\* rhs that is not empty (getInput(index + 0)), the position after every
\* terminal stepped over (getInput(index + offset) after offset += 1);
\* call hands ntAdd a position getInput was asked for
Lookups ==
  (IF pc = "new" THEN {} ELSE {0})
    \cup {d.index : d \in {e \in popped : Len(e.slot.rule.rhs) > 0}}
    \cup {s[2] + 1 : s \in scanned}

\* C33: for a grammar and a token list without the end marker, with n the
\* number of tokens, every descriptor of totalSet has
\* 0 <= callIndex <= index <= n and every lookup of the input is at a
\* position from 0 to n: getInput gives a token or the end marker there,
\* parseInput[position] exists, and no call ends in ValueError or
\* IndexError.
C33_IndexBounds ==
  (engineFile = "pygll/pygll/parser.py" /\ Plain /\ pc # "new") =>
    /\ \A d \in totalSet :
         0 <= d.callIndex /\ d.callIndex <= d.index /\ d.index <= Len(Tokens)
    /\ \A p \in Lookups :
         /\ 0 <= p /\ p <= Len(Tokens)
         /\ getInput(Self, p).raised = ""
         /\ p < Len(parseInput)
    /\ exc \notin {"ValueError", "IndexError"}

\* a run to the end on two tokens or more has looked at the end marker and
\* holds a descriptor that was called after the first token and has reached
\* the end of the input
C33_Witness ==
  /\ Plain /\ Done /\ NoFault
  /\ Len(Tokens) >= 2
  /\ Len(Tokens) \in Lookups
  /\ \E d \in totalSet : 0 < d.callIndex /\ d.callIndex < d.index /\ d.index = Len(Tokens)
\* C34: in the engine of src/pygll/pygll/parser.py no call made by
\* continueParse, call or rtn fails a check of a constructor or accessor.
\* update never gives None (no AttributeError); a ValueError or IndexError
\* is that of a lookup of the input out of range, never that of pred or
\* validateBSRNode; every slot held is within its rhs and every position
\* is non-negative; every slot of a return address follows the nonterminal
\* of its call record; and every node that call or rtn builds for a
\* return address and a return position, like every node of bsrSet,
\* passes validateBSRNode.
C34_NoRecordFailure ==
  engineFile = "pygll/pygll/parser.py" =>
    /\ exc # "AttributeError"
    /\ exc \in {"ValueError", "IndexError"} =>
         \E p \in Lookups : getInput(Self, p).raised # "" \/ p >= Len(parseInput)
    /\ \A d \in totalSet :
         /\ GrammarSlotCheck(d.slot.rule, d.slot.index) = ""
         /\ d.callIndex >= 0 /\ d.index >= 0
    /\ \A rec \in DOMAIN callReturnForest :
         /\ rec.index >= 0
         /\ \A a \in callReturnForest[rec] :
              /\ a.callIndex >= 0
              /\ GrammarSlotCheck(a.slot.rule, a.slot.index) = ""
              /\ pred(a.slot) = [raised |-> "", value |-> rec.symbol]
              /\ \A j \in DictGet(contingentReturnSet, rec) :
                   bsrAdd(Self, a.slot, a.callIndex, rec.index, j).raised = ""
    /\ \A b \in bsrSet : validateBSRNode(b.type = "Tree", b) = ""

\* a run to the end has built an Alt node of a one-symbol rule, a node that
\* ends with a terminal and a node that ends with a nonterminal, and call
\* has taken the nonterminal before a slot
C34_Witness ==
  /\ Done /\ NoFault
  /\ \E b \in bsrSet : Len(LabelSyms(b)) = 1 /\ b.lext = b.pivot
  /\ \E b \in bsrSet :
       isTerm(LabelSyms(b)[Len(LabelSyms(b))]) /\ Len(LabelSyms(b)) > 1
  /\ \E b \in bsrSet : isNonTerm(LabelSyms(b)[Len(LabelSyms(b))]) /\ b.pivot < b.rext
  /\ \E rec \in DOMAIN callReturnForest : callReturnForest[rec] # {}
====
